---------------------------- MODULE Spec2Model ----------------------------
(***************************************************************************)
(* Split-step propagation of a mean field and of its fluctuation moments   *)
(* (kerrlib.py) and the driver object qss (QSS.py).                        *)
(*                                                                         *)
(* Numbers.  The program computes in complex128.  The model computes       *)
(* exactly, in the field GF(P^2) = Z_P[i] with P = 239: P = 3 (mod 4), so  *)
(* i*i = -1 has no root in Z_P and a + b*i -> a - b*i is the conjugation;  *)
(* 3 and 5 divide P + 1, so the field holds primitive 3rd and 5th roots of *)
(* unity of modulus one, which the discrete Fourier transform of the grid  *)
(* sizes 3 and 5 needs.  A real number is an element of Z_P, a complex     *)
(* number a + b*i is coded as the integer a + P*b.  Every identity of the  *)
(* program's arithmetic that is an identity of commutative rings with      *)
(* conjugation holds in the model, and an identity that fails in the model *)
(* is no such identity.  Rounding is not modelled.                         *)
(*                                                                         *)
(* The transcendental functions np.exp and scipy.linalg.expm are modelled  *)
(* by their power series cut after the quadratic term, 1 + z + z*z/2, the  *)
(* same cut for the scalar and for the matrix.  np.pi enters through       *)
(* sqrt(2*pi), an element Sqrt2Pi of Z_P.                                   *)
(*                                                                         *)
(* Arrays are indexed from 0, as in the program.                           *)
(***************************************************************************)
EXTENDS Integers, Sequences, FiniteSets, TLC

P == 239

\* ------------------------------------------------------------ scalars
Fp(x) == ((x % P) + P) % P
Cx(a, b) == Fp(a) + P * Fp(b)
Re(z) == z % P
Im(z) == z \div P
I1 == Cx(0, 1)

cadd(x, y) == Cx(Re(x) + Re(y), Im(x) + Im(y))
csub(x, y) == Cx(Re(x) - Re(y), Im(x) - Im(y))
cmul(x, y) == Cx(Re(x) * Re(y) - Im(x) * Im(y), Re(x) * Im(y) + Im(x) * Re(y))
cconj(z) == Cx(Re(z), 0 - Im(z))
cneg(z) == Cx(0 - Re(z), 0 - Im(z))
abs2(z) == Fp(Re(z) * Re(z) + Im(z) * Im(z))

RECURSIVE fpow(_, _)
\* x^e in Z_P
fpow(x, e) == IF e = 0 THEN 1
              ELSE IF e % 2 = 1 THEN Fp(x * fpow(x, e - 1))
              ELSE fpow(Fp(x * x), e \div 2)
\* 1/x in Z_P, x # 0 (Fermat)
finv(x) == fpow(Fp(x), P - 2)
fdiv(x, y) == Fp(x * finv(Fp(y)))
\* z / r for a real r # 0
cdivr(z, r) == LET q == finv(Fp(r)) IN Cx(Re(z) * q, Im(z) * q)
\* r * z for a real r
cscal(r, z) == Cx(Fp(r) * Re(z), Fp(r) * Im(z))

Half == (P + 1) \div 2
Sqrt2Pi == 5
TwoPi == Fp(Sqrt2Pi * Sqrt2Pi)

\* np.exp(z)
Exp(z) == cadd(cadd(1, z), cscal(Half, cmul(z, z)))

\* e^{2 pi i / n}
Root(n) == CASE n = 1 -> 1
             [] n = 3 -> Cx(119, 53)
             [] n = 5 -> Cx(127, 29)
RECURSIVE cpow(_, _)
cpow(z, e) == IF e = 0 THEN 1 ELSE cmul(z, cpow(z, e - 1))

\* ------------------------------------------------------------ arrays
Idx(n) == 0 .. (n - 1)
Size(v) == Cardinality(DOMAIN v)
\* An array is a function on 0 .. n-1.  TLC evaluates f @@ g to an explicit function,
\* so an array built by vec is computed once, when it is built.
vec(f) == f @@ << >>

RECURSIVE SumTo(_, _)
\* sum of f[0] .. f[k-1] in GF(P^2)
SumTo(f, k) == IF k = 0 THEN 0 ELSE cadd(SumTo(f, k - 1), f[k - 1])

vzeros(n) == vec([j \in Idx(n) |-> 0])
mzeros(n) == vec([i \in Idx(n) |-> vec([j \in Idx(n) |-> 0])])
identity(n) == vec([i \in Idx(n) |-> vec([j \in Idx(n) |-> IF i = j THEN 1 ELSE 0])])

mT(a) == vec([i \in DOMAIN a[0] |-> vec([j \in DOMAIN a |-> a[j][i]])])
mconj(a) == vec([i \in DOMAIN a |-> vec([j \in DOMAIN a[i] |-> cconj(a[i][j])])])
vconj(v) == vec([j \in DOMAIN v |-> cconj(v[j])])
madd(a, b) == vec([i \in DOMAIN a |-> vec([j \in DOMAIN a[i] |-> cadd(a[i][j], b[i][j])])])
mneg(a) == vec([i \in DOMAIN a |-> vec([j \in DOMAIN a[i] |-> cneg(a[i][j])])])
mscal(c, a) == vec([i \in DOMAIN a |-> vec([j \in DOMAIN a[i] |-> cmul(c, a[i][j])])])
vscal(c, v) == vec([j \in DOMAIN v |-> cmul(c, v[j])])
mmul(a, b) ==
    LET m == Size(b)
    IN  vec([i \in DOMAIN a |-> vec([j \in DOMAIN b[0] |->
            SumTo(vec([k \in Idx(m) |-> cmul(a[i][k], b[k][j])]), m)])])
\* matrix @ vector and vector @ matrix
mvmul(a, v) ==
    LET m == Size(v)
    IN  vec([i \in DOMAIN a |-> SumTo(vec([k \in Idx(m) |-> cmul(a[i][k], v[k])]), m)])
vmmul(v, b) ==
    LET m == Size(v)
    IN  vec([j \in DOMAIN b[0] |-> SumTo(vec([k \in Idx(m) |-> cmul(v[k], b[k][j])]), m)])

\* ------------------------------------------------------------ numpy.fft
\* np.fft.fft: X[k] = sum_j z[j] e^{-2 pi i j k / n}
fft(z) ==
    LET n == Size(z)
        w == cconj(Root(n))
    IN  vec([k \in Idx(n) |-> SumTo(vec([j \in Idx(n) |-> cmul(z[j], cpow(w, (j * k) % n))]), n)])
\* np.fft.ifft: z[j] = (1/n) sum_k X[k] e^{+2 pi i j k / n}
ifft(X) ==
    LET n == Size(X)
        w == Root(n)
    IN  vec([j \in Idx(n) |->
            cdivr(SumTo(vec([k \in Idx(n) |-> cmul(X[k], cpow(w, (j * k) % n))]), n), n)])
\* np.fft.fftshift = roll by n // 2, np.fft.ifftshift = roll by -(n // 2)
fftshift(x) == LET n == Size(x) IN vec([j \in Idx(n) |-> x[(j + n - (n \div 2)) % n]])
ifftshift(x) == LET n == Size(x) IN vec([j \in Idx(n) |-> x[(j + (n \div 2)) % n]])
\* np.fft.fftfreq(n, d) * n * d: the integers 0, 1, .., (n-1)//2, -(n//2), .., -1
fftfreq(n) == vec([j \in Idx(n) |-> IF j <= (n - 1) \div 2 THEN j ELSE j - n])

\* ------------------------------------------------------------ kerrlib: transforms
myfft(z, dz) == fftshift(vscal(fdiv(dz, Sqrt2Pi), fft(z)))
myifft(k, dk, n) == ifftshift(vscal(fdiv(Fp(dk * n), Sqrt2Pi), ifft(k)))

\* a grid held in integer multiples of its unit, as reals of Z_P
Grid(g, unit) == vec([j \in DOMAIN g |-> Fp(g[j] * unit)])

\* ------------------------------------------------------------ kerrlib: split-step operators
opD(u, TD, G, kk, dt) ==
    LET k == fft(u)
        hdt == Fp(dt * Half)
        ph == vec([j \in DOMAIN u |->
                 Exp(cscal(hdt, cmul(I1, fdiv(Fp(kk[j] * kk[j]), Fp(2 * TD)))))])
        damp == Exp(Fp(hdt * Fp(0 - Fp(G * Half))))
    IN  vscal(damp, ifft(vec([j \in DOMAIN u |-> cmul(ph[j], k[j])])))

opN(u, TN, ui, dt) ==
    vec([j \in DOMAIN u |-> cmul(Exp(cscal(Fp(fdiv(dt, TN) * abs2(ui[j])), I1)), u[j])])

\* ------------------------------------------------------------ kerrlib: moment matrices
s(u, TN, dz) == LET f == myfft(vec([j \in DOMAIN u |-> cmul(u[j], u[j])]), dz)
                IN  vec([j \in DOMAIN f |-> cdivr(f[j], TN)])
\* m with u ** 2 in the place of np.abs(u) ** 2
m_noabs(u, TN, dz) == s(u, TN, dz)
m(u, TN, dz) == LET f == myfft(vec([j \in DOMAIN u |-> abs2(u[j])]), dz)
                IN  vec([j \in DOMAIN f |-> cdivr(f[j], TN)])

\* A with D = np.full((n, n), ks ** 2 / (2 TD)), the np.diag left out
A_full(u, TD, TN, dz, ks, dk, im, n) ==
    LET mk == m(u, TN, dz)
        c == fdiv(Fp(2 * dk), Sqrt2Pi)
    IN  vec([i \in Idx(n) |-> vec([j \in Idx(n) |->
            cadd(fdiv(Fp(ks[j] * ks[j]), Fp(2 * TD)), cscal(c, mk[im[i][j]]))])])

A(u, TD, TN, dz, ks, dk, im, n) ==
    LET mk == m(u, TN, dz)
        c == fdiv(Fp(2 * dk), Sqrt2Pi)
    IN  vec([i \in Idx(n) |-> vec([j \in Idx(n) |->
            cadd(IF i = j THEN fdiv(Fp(ks[i] * ks[i]), Fp(2 * TD)) ELSE 0,
                 cscal(c, mk[im[i][j]]))])])

B(u, TN, dz, dk, ip) ==
    LET sk == s(u, TN, dz)
        c == fdiv(dk, Sqrt2Pi)
    IN  vec([i \in DOMAIN ip |-> vec([j \in DOMAIN ip[i] |-> cscal(c, sk[ip[i][j]])])])

\* np.block([[a, b], [c, d]]) of four n x n matrices
block(a, b, c, d, n) ==
    vec([i \in Idx(2 * n) |-> vec([j \in Idx(2 * n) |->
        IF i < n THEN (IF j < n THEN a[i][j] ELSE b[i][j - n])
                 ELSE (IF j < n THEN c[i - n][j] ELSE d[i - n][j - n])])])
\* K[r0 : r0 + n, c0 : c0 + n]
slice(K, r0, c0, n) == vec([i \in Idx(n) |-> vec([j \in Idx(n) |-> K[r0 + i][c0 + j]])])

Q(u, TD, TN, dz, ks, dk, im, ip, n) ==
    LET a == A(u, TD, TN, dz, ks, dk, im, n)
        b == B(u, TN, dz, dk, ip)
    IN  block(a, b, mneg(mT(mconj(b))), mneg(mconj(a)), n)

\* scipy.linalg.expm
expm(X) == LET n == Size(X)
           IN  madd(madd(identity(n), X), mscal(Half, mmul(X, X)))

\* ------------------------------------------------------------ numpy arrays of 1 or 2 dimensions
\* M and N start as np.zeros(n), an array of one dimension, and become matrices:
\* the moments carry their number of dimensions.
nd1(v) == [ndim |-> 1, a |-> v]
nd2(a) == [ndim |-> 2, a |-> a]
ndeq(x, y) == x.ndim = y.ndim /\ x.a = y.a
vadd(v, w) == vec([j \in DOMAIN v |-> cadd(v[j], w[j])])
\* x @ y
matmul(x, y) ==
    CASE x.ndim = 2 /\ y.ndim = 2 -> nd2(mmul(x.a, y.a))
      [] x.ndim = 2 /\ y.ndim = 1 -> nd1(mvmul(x.a, y.a))
      [] x.ndim = 1 /\ y.ndim = 2 -> nd1(vmmul(x.a, y.a))
\* x + y with numpy's broadcasting: a vector is added to every row of a matrix
ndadd(x, y) ==
    CASE x.ndim = 2 /\ y.ndim = 2 -> nd2(madd(x.a, y.a))
      [] x.ndim = 1 /\ y.ndim = 1 -> nd1(vadd(x.a, y.a))
      [] x.ndim = 1 /\ y.ndim = 2 ->
            nd2(vec([i \in DOMAIN y.a |-> vec([j \in DOMAIN y.a[i] |-> cadd(x.a[j], y.a[i][j])])]))
      [] x.ndim = 2 /\ y.ndim = 1 ->
            nd2(vec([i \in DOMAIN x.a |-> vec([j \in DOMAIN x.a[i] |-> cadd(x.a[i][j], y.a[j])])]))
\* x.conj(), x.T, c * x
ndconj(x) == IF x.ndim = 2 THEN nd2(mconj(x.a)) ELSE nd1(vconj(x.a))
ndT(x) == IF x.ndim = 2 THEN nd2(mT(x.a)) ELSE x
ndscal(c, x) == IF x.ndim = 2 THEN nd2(mscal(c, x.a)) ELSE nd1(vscal(c, x.a))
\* np.linalg.norm(x) ** 2 (the norm itself is a square root, which Z_P lacks)
norm2(a) ==
    LET n == Size(a)
    IN  SumTo(vec([i \in Idx(n) |-> SumTo(vec([j \in Idx(n) |-> abs2(a[i][j])]), n)]), n)

\* ------------------------------------------------------------ kerrlib: diagnostics
msub(a, b) == madd(a, mneg(b))
\* The two lines the UWcheck block prints: |U U^H - W W^H - 1|, |U W^T - W U^T|
UWprint(U, W, n) ==
    << <<"UU-WW-1", norm2(msub(msub(mmul(U, mT(mconj(U))), mmul(W, mT(mconj(W)))), identity(n)))>>,
       <<"UWt-WUt", norm2(msub(mmul(U, mT(W)), mmul(W, mT(U))))>> >>
\* The two lines the MNcheck block prints.  The first compares the singular values
\* of M with the eigenvalues of N; its value is not modelled, the line is.
MNprint(M, N, n) ==
    << <<"l2l2-l1l1">>,
       <<"MM-NN", norm2(msub(mmul(mconj(M), M), mmul(N, madd(N, identity(n)))))>> >>

\* A frame f holds the locals of one call of P_no_loss, P_loss or P_Nico:
\*   pc, the loop counter i, u, ui, K, the generator Qm, M, N, and out, the lines printed.
\* a holds the call's arguments.
\* an MNcheck block that adds the identity to N in place before printing
MNblock_inplace(f, a) ==
    IF a.MNcheck = "True"
      THEN [f EXCEPT !.N = ndadd(f.N, nd2(identity(a.n))),
                     !.out = @ \o MNprint(f.M.a, f.N.a, a.n)]
      ELSE f
UWblock(f, a, U, W) ==
    IF a.UWcheck = "True" THEN [f EXCEPT !.out = @ \o UWprint(U, W, a.n)] ELSE f
MNblock(f, a) ==
    IF a.MNcheck = "True" THEN [f EXCEPT !.out = @ \o MNprint(f.M.a, f.N.a, a.n)] ELSE f

\* ------------------------------------------------------------ kerrlib: the three propagators
\* M = np.zeros(n); N = np.zeros(n); K = np.identity(2 * n) (P_loss has no K yet)
P_entry(a) ==
    [pc |-> "loop", i |-> 0, u |-> a.u, ui |-> << >>,
     K |-> IF a.fn = "P_loss" THEN << >> ELSE identity(2 * a.n),
     Qm |-> << >>, M |-> nd1(vzeros(a.n)), N |-> nd1(vzeros(a.n)), out |-> << >>]

\* every variant handing opD the literal 0
opD_G_zero(a) == 0
\* the loss rate handed to opD: P_no_loss passes the literal 0
opD_G(a) == IF a.fn = "P_no_loss" THEN 0 ELSE a.G

\* for _ in range(tf): ui = u
P_loop(f, a) ==
    IF f.i < a.tf THEN [f EXCEPT !.ui = f.u, !.pc = "opD1"] ELSE [f EXCEPT !.pc = "post"]
\* u = opD(u, TD, G, kk, dt)
P_opD1(f, a) == [f EXCEPT !.u = opD(f.u, a.TD, opD_G(a), a.kk, a.dt), !.pc = "opN"]
\* the nonlinear step with the current field as its reference
P_opN_current(f, a) == [f EXCEPT !.u = opN(f.u, a.TN, f.u, a.dt), !.pc = "opD2"]
\* u = opN(u, TN, ui, dt)
P_opN(f, a) == [f EXCEPT !.u = opN(f.u, a.TN, f.ui, a.dt), !.pc = "opD2"]
\* u = opD(u, TD, G, kk, dt)
P_opD2(f, a) == [f EXCEPT !.u = opD(f.u, a.TD, opD_G(a), a.kk, a.dt), !.pc = "Q"]
\* Q(u, TD, TN, dz, ks, dk, im, ip, n)
P_Q(f, a, im, ip) ==
    [f EXCEPT !.Qm = Q(f.u, a.TD, a.TN, a.dz, a.ks, a.dk, im, ip, a.n), !.pc = "upd"]

\* expm(1j * dt * Q)
stepK(f, a) == expm(mscal(cscal(a.dt, I1), f.Qm))

\* the right-hand sides of P_loss's two assignments to M and to N
Mrec(U, W, M, N) ==
    ndadd(ndadd(ndadd(ndadd(matmul(matmul(U, M), ndT(U)),
                            matmul(matmul(W, ndconj(M)), ndT(W))),
                      matmul(matmul(W, N), ndT(U))),
                matmul(matmul(U, ndT(N)), ndT(W))),
          matmul(U, ndT(W)))
Nrec(U, W, M, N) ==
    ndadd(ndadd(ndadd(ndadd(matmul(matmul(ndconj(W), M), ndT(U)),
                            matmul(matmul(ndconj(U), ndconj(M)), ndT(W))),
                      matmul(matmul(ndconj(U), N), ndT(U))),
                matmul(matmul(ndconj(W), ndT(N)), ndT(W))),
          matmul(ndconj(W), ndT(W)))

\* P_loss, from K = expm(..) to the end of the loop body
loss_update(f, a) ==
    LET K == stepK(f, a)
        U == slice(K, 0, 0, a.n)
        W == slice(K, 0, a.n, a.n)
        f1 == UWblock([f EXCEPT !.K = K], a, U, W)
        M1 == Mrec(nd2(U), nd2(W), f.M, f.N)
        \* N is assigned after M: its right-hand side reads the new M
        N1 == Nrec(nd2(U), nd2(W), M1, f.N)
        c == Fp(1 - a.G * a.dt)
        f2 == [f1 EXCEPT !.M = ndscal(c, M1), !.N = ndscal(c, N1)]
    IN  MNblock(f2, a)

\* the fluctuation update that ends the loop body
P_upd(f, a) ==
    LET g == IF a.fn = "P_loss" THEN loss_update(f, a)
                                ELSE [f EXCEPT !.K = mmul(stepK(f, a), f.K)]
    IN  [g EXCEPT !.i = @ + 1, !.pc = "loop"]

\* after the loop, up to return u, M, N
P_post(f, a) ==
    IF a.fn = "P_loss" THEN [f EXCEPT !.pc = "return"]
    ELSE
      LET U == slice(f.K, 0, 0, a.n)
          W == slice(f.K, 0, a.n, a.n)
          f1 == UWblock(f, a, U, W)
          M1 == nd2(mmul(U, mT(W)))
          N1 == nd2(mmul(mconj(W), mT(W)))
          e == Exp(Fp(0 - a.G * a.dt * a.tf))
          f2 == IF a.fn = "P_Nico"
                  THEN [f1 EXCEPT !.M = ndscal(e, M1), !.N = ndscal(e, N1)]
                  ELSE [f1 EXCEPT !.M = M1, !.N = N1]
      IN  [MNblock(f2, a) EXCEPT !.pc = "return"]

\* one step of a frame: the statement its pc stands at
PStep(f, a, im, ip) ==
    CASE f.pc = "loop" -> P_loop(f, a)
      [] f.pc = "opD1" -> P_opD1(f, a)
      [] f.pc = "opN" -> P_opN(f, a)
      [] f.pc = "opD2" -> P_opD2(f, a)
      [] f.pc = "Q" -> P_Q(f, a, im, ip)
      [] f.pc = "upd" -> P_upd(f, a)
      [] f.pc = "post" -> P_post(f, a)
      [] OTHER -> f

\* ------------------------------------------------------------ kerrlib: pulse shapes
\* on a grid z of integers; np.cosh and np.sqrt as np.exp is: cosh by its cut series
Cosh(z) == cadd(1, cscal(Half, Fp(z * z)))
Sqrt(x) == CHOOSE r \in 0 .. (P \div 2) : Fp(r * r) = Fp(x)
Abs(z) == IF z < 0 THEN 0 - z ELSE z
gaussian(z) == vec([j \in DOMAIN z |-> Exp(Fp(0 - Fp(z[j] * z[j]) * Half))])
sech(z) == vec([j \in DOMAIN z |-> finv(Cosh(z[j]))])
\* np.where(abs(z) <= 0.5 * l, 1, 0) with l = 2 sqrt(2 log 2) = 2.35..: |z| <= 1 for an integer z
rect(z) == vec([j \in DOMAIN z |-> IF Abs(z[j]) <= 1 THEN 1 ELSE 0])
lorentzian(z) == vec([j \in DOMAIN z |-> finv(Sqrt(1 + z[j] * z[j]))])

\* ------------------------------------------------------------ QSS: the object
\* The bounds of the model
MaxTf == 2

\* qss.__init__(zf, n), for zf a multiple of (n - 1) / 2: the grid zz and its spacing dz
\* are integers; kk and ks are held in integer multiples of dk.  dt and tf are not
\* set by __init__: << >> stands for an attribute the object does not have.
qss_init(zf, n) ==
    LET dz == (2 * zf) \div (n - 1)
        kk == fftfreq(n)
    IN  [n |-> n, zf |-> zf,
         zz |-> vec([j \in Idx(n) |-> j * dz - zf]),
         dz |-> dz,
         kk |-> kk,
         ks |-> fftshift(kk),
         dk |-> fdiv(TwoPi, n * dz),
         dt |-> << >>, tf |-> << >>]

Objects == {qss_init(1, 3), qss_init(4, 5)}

\* ------------------------------------------------------------ QSS: evolution
None == [kind |-> "None"]
Str(x) == [kind |-> "str", s |-> x]
Arr(v) == [kind |-> "array", a |-> v]

\* a pump_shape that falls back to the Gaussian pulse where the code raises
pump_shape_lenient(u, self) ==
    IF u.kind = "array" /\ Size(u.a) = self.n THEN u ELSE Arr(gaussian(self.zz))

\* lines 53-72: the pump shape.  The result is the field, or the error raised.
pump_shape(u, self) ==
    LET u1 == IF u.kind = "None" THEN Arr(gaussian(self.zz)) ELSE u
        u2 == IF u1.kind = "str"
                THEN CASE u1.s = "Gaussian" -> Arr(gaussian(self.zz))
                       [] u1.s = "Rect" -> Arr(rect(self.zz))
                       [] u1.s = "Sech" -> Arr(sech(self.zz))
                       [] u1.s = "Lorentzian" -> Arr(lorentzian(self.zz))
                       [] OTHER -> [kind |-> "raise", e |-> "ValueError: not a valid pump shape"]
                ELSE u1
    IN  IF u2.kind = "array" /\ Size(u2.a) # self.n
          THEN [kind |-> "raise", e |-> "ValueError: pump shape function is not length n"]
          ELSE u2

clip(x, lo, hi) == IF x < lo THEN lo ELSE IF x > hi THEN hi ELSE x
\* the difference table clipped to 0 .. n, one past the last index
index_im_wide(ks, n) ==
    vec([i \in Idx(n) |-> vec([j \in Idx(n) |-> clip((ks[j] - ks[i]) + (n - 1) \div 2, 0, n)])])
\* lines 86-90: xx[i][j] = ks[j] / dk, yy[i][j] = ks[i] / dk, integers
index_im(ks, n) ==
    vec([i \in Idx(n) |-> vec([j \in Idx(n) |-> clip((ks[j] - ks[i]) + (n - 1) \div 2, 0, n - 1)])])
\* the sum table built from xx + xx, yy forgotten
index_ip_xx(ks, n) ==
    vec([i \in Idx(n) |-> vec([j \in Idx(n) |-> clip((ks[j] + ks[j]) + (n - 1) \div 2, 0, n - 1)])])
index_ip(ks, n) ==
    vec([i \in Idx(n) |-> vec([j \in Idx(n) |-> clip((ks[j] + ks[i]) + (n - 1) \div 2, 0, n - 1)])])

\* the arguments of a propagator called on the object's grid
P_args(fn, u, TD, TN, G, self, tf, dt, UW, MN) ==
    [fn |-> fn, u |-> u, TD |-> TD, TN |-> TN, G |-> G, dz |-> Fp(self.dz),
     kk |-> Grid(self.kk, self.dk), ks |-> Grid(self.ks, self.dk), dk |-> self.dk,
     tf |-> tf, dt |-> dt, n |-> self.n, UWcheck |-> UW, MNcheck |-> MN]

\* ------------------------------------------------------------ the state
VARIABLES
    self,   \* the qss object
    pc,     \* "idle", inside evolution ("ev_shape", "ev_setup", "ev_call"), "P", "raised"
    ev,     \* evolution's arguments and locals
    a,      \* the arguments of the propagator running
    im, ip, \* the index tables handed to the propagator
    fr,     \* the frame of the propagator running
    ref,    \* the same call with UWcheck = MNcheck = "False", run beside it
    twin,   \* P_no_loss on the same arguments, run beside it
    hist,   \* what the running call has done: the sub-steps taken, the fields between them
    err,    \* the exception raised, "" for none
    t       \* a caller of myfft and myifft: [pc, x, dz, sp, k, y]

vars == <<self, pc, ev, a, im, ip, fr, ref, twin, hist, err, t>>

NoFrame == [pc |-> "none", i |-> 0, u |-> << >>, ui |-> << >>, K |-> << >>, Qm |-> << >>,
            M |-> nd1(<< >>), N |-> nd1(<< >>), out |-> << >>]
NoArgs == [fn |-> "none", u |-> << >>, TD |-> 0, TN |-> 0, G |-> 0, dz |-> 0, kk |-> << >>,
           ks |-> << >>, dk |-> 0, tf |-> 0, dt |-> 0, n |-> 0,
           UWcheck |-> "False", MNcheck |-> "False"]
NoEv == [u |-> None, loss |-> FALSE, G |-> 0, TN |-> 0, TD |-> 0, tf |-> 0]
NoHist == [trace |-> << >>, u0 |-> << >>, u1 |-> << >>, u2 |-> << >>, u3 |-> << >>]
NoT == [pc |-> "none", x |-> << >>, dz |-> 0, sp |-> "", k |-> << >>, y |-> << >>]

\* ------------------------------------------------------------ the inputs
Variants == {"P_no_loss", "P_loss", "P_Nico"}
Flags == {"True", "False"}
\* fields of length n: the zero field, a real one, a complex one
Fields(n) == {vzeros(n),
              vec([j \in Idx(n) |-> 1 + (j % 2)]),
              vec([j \in Idx(n) |-> Cx(j + 1, 2 - j)])}
\* what a caller may hand to evolution as u
Pumps(n) == {None, Str("Gaussian"), Str("Rect"), Str("Sech"), Str("Lorentzian"), Str("Square")}
              \cup {Arr(v) : v \in Fields(n)}
              \cup {Arr(vzeros(n + 1)), Arr(vec([j \in Idx(n - 1) |-> 1]))}
LossRates == {0, 2}
\* the scaled nonlinear and dispersion times, given by the caller
TNs == {4}
TDs == {3}

refargs(x) == [x EXCEPT !.UWcheck = "False", !.MNcheck = "False"]
twinargs(x) == [x EXCEPT !.fn = "P_no_loss", !.UWcheck = "False", !.MNcheck = "False"]

Init ==
    /\ self \in Objects
    /\ pc = "idle"
    /\ ev = NoEv
    /\ a = NoArgs
    /\ im = << >>
    /\ ip = << >>
    /\ fr = NoFrame
    /\ ref = NoFrame
    /\ twin = NoFrame
    /\ hist = NoHist
    /\ err = ""
    /\ t = NoT

\* ------------------------------------------------------------ evolution, statement by statement
\* a call of self.evolution(.., u, loss, TN, TD); tf stands for the waveguide length L,
\* which enters only through self.tf = rint(L / (v * dt) * scale_factor)
evolution(u, loss, G, TN, TD, tf) ==
    /\ pc \in {"idle", "raised"}
    /\ pc' = "ev_shape"
    /\ ev' = [u |-> u, loss |-> loss, G |-> G, TN |-> TN, TD |-> TD, tf |-> tf]
    /\ err' = ""
    /\ UNCHANGED <<self, a, im, ip, fr, ref, twin, hist, t>>

\* lines 53-72
ev_shape ==
    /\ pc = "ev_shape"
    /\ LET r == pump_shape(ev.u, self)
       IN  IF r.kind = "raise"
             THEN pc' = "raised" /\ err' = r.e /\ ev' = NoEv
             ELSE pc' = "ev_setup" /\ err' = err /\ ev' = [ev EXCEPT !.u = r]
    /\ UNCHANGED <<self, a, im, ip, fr, ref, twin, hist, t>>

\* lines 74-90
ev_setup ==
    /\ pc = "ev_setup"
    /\ self' = [self EXCEPT !.dt = <<self.dz>>, !.tf = <<ev.tf>>]
    /\ im' = index_im(self.ks, self.n)
    /\ ip' = index_ip(self.ks, self.n)
    /\ pc' = "ev_call"
    /\ UNCHANGED <<ev, a, fr, ref, twin, hist, err, t>>

\* what a call does on entry to a propagator
Enter(args) ==
    /\ a' = args
    /\ fr' = P_entry(args)
    /\ ref' = P_entry(refargs(args))
    /\ twin' = P_entry(twinargs(args))
    /\ hist' = NoHist
    /\ pc' = "P"

\* lines 92-98
ev_call ==
    /\ pc = "ev_call"
    /\ Enter(P_args(IF ev.loss THEN "P_loss" ELSE "P_no_loss", ev.u.a, ev.TD, ev.TN,
                    IF ev.loss THEN ev.G ELSE 0, self, self.tf[1], Fp(self.dt[1]),
                    "False", "False"))
    /\ ev' = NoEv
    /\ UNCHANGED <<self, im, ip, err, t>>

\* a caller of kerrlib itself, on the object's grid, with tables built as evolution builds
\* them and dt = dz
P_call(fn, u, G, TN, TD, tf, UW, MN) ==
    /\ pc \in {"idle", "raised"}
    /\ im' = index_im(self.ks, self.n)
    /\ ip' = index_ip(self.ks, self.n)
    /\ Enter(P_args(fn, u, TD, TN, IF fn = "P_no_loss" THEN 0 ELSE G, self, tf,
                    Fp(self.dz), UW, MN))
    /\ err' = ""
    /\ UNCHANGED <<self, ev, t>>

\* ------------------------------------------------------------ the propagator, statement by statement
Shadows ==
    /\ ref' = PStep(ref, refargs(a), im, ip)
    /\ twin' = PStep(twin, twinargs(a), im, ip)
    /\ UNCHANGED <<self, pc, ev, a, im, ip, err, t>>

loop ==
    /\ pc = "P" /\ fr.pc = "loop"
    /\ fr' = P_loop(fr, a)
    /\ hist' = IF fr.i < a.tf THEN [hist EXCEPT !.u0 = fr.u] ELSE hist
    /\ Shadows

half1 ==
    /\ pc = "P" /\ fr.pc = "opD1"
    /\ fr' = P_opD1(fr, a)
    /\ hist' = [hist EXCEPT !.trace = Append(@, "D"), !.u1 = fr'.u]
    /\ Shadows

nonlinear ==
    /\ pc = "P" /\ fr.pc = "opN"
    /\ fr' = P_opN(fr, a)
    /\ hist' = [hist EXCEPT !.trace = Append(@, "N"), !.u2 = fr'.u]
    /\ Shadows

half2 ==
    /\ pc = "P" /\ fr.pc = "opD2"
    /\ fr' = P_opD2(fr, a)
    /\ hist' = [hist EXCEPT !.trace = Append(@, "D"), !.u3 = fr'.u]
    /\ Shadows

generator ==
    /\ pc = "P" /\ fr.pc = "Q"
    /\ fr' = P_Q(fr, a, im, ip)
    /\ hist' = [hist EXCEPT !.trace = Append(@, "Q")]
    /\ Shadows

update ==
    /\ pc = "P" /\ fr.pc = "upd"
    /\ fr' = P_upd(fr, a)
    /\ hist' = [hist EXCEPT !.trace = Append(@, "F")]
    /\ Shadows

post ==
    /\ pc = "P" /\ fr.pc = "post"
    /\ fr' = P_post(fr, a)
    /\ hist' = hist
    /\ Shadows

\* return u, M, N: the caller has the triple, the frame is gone
return ==
    /\ pc = "P" /\ fr.pc = "return"
    /\ pc' = "idle"
    /\ a' = NoArgs /\ im' = << >> /\ ip' = << >>
    /\ fr' = NoFrame /\ ref' = NoFrame /\ twin' = NoFrame /\ hist' = NoHist
    /\ UNCHANGED <<self, ev, err, t>>

Next ==
    \/ \E u \in Pumps(self.n), loss \in BOOLEAN, G \in LossRates, TN \in TNs, TD \in TDs,
          tf \in 0 .. MaxTf : evolution(u, loss, G, TN, TD, tf)
    \/ ev_shape
    \/ ev_setup
    \/ ev_call
    \/ \E fn \in Variants, u \in Fields(self.n), G \in LossRates, TN \in TNs, TD \in TDs,
          tf \in 0 .. MaxTf, UW \in Flags, MN \in Flags : P_call(fn, u, G, TN, TD, tf, UW, MN)
    \/ loop
    \/ half1
    \/ nonlinear
    \/ half2
    \/ generator
    \/ update
    \/ post
    \/ return

Spec == Init /\ [][Next]_vars

\* ------------------------------------------------------------ a caller of the transform pair
\* vectors of length n over a few complex numbers
Entries == {0, 1, I1, Cx(2, 3)}
Vectors(n) == IF n = 3 THEN [Idx(3) -> Entries]
              ELSE {vec([j \in Idx(n) |-> cmul(e, Cx(j, 1))]) : e \in Entries}
Spacings == {1, 2}

InitFFT ==
    /\ self \in Objects
    /\ pc = "idle" /\ ev = NoEv /\ a = NoArgs /\ im = << >> /\ ip = << >>
    /\ fr = NoFrame /\ ref = NoFrame /\ twin = NoFrame /\ hist = NoHist /\ err = ""
    /\ t \in {[pc |-> "x", x |-> x, dz |-> dz, sp |-> "", k |-> << >>, y |-> << >>] :
                x \in Vectors(self.n), dz \in Spacings}

\* k = myfft(x, dz)
call_myfft ==
    /\ t.pc = "x"
    /\ t' = [t EXCEPT !.k = myfft(t.x, t.dz), !.pc = "k"]
    /\ UNCHANGED <<self, pc, ev, a, im, ip, fr, ref, twin, hist, err>>

\* y = myifft(k, d, n), where d is dz again or the reciprocal spacing dk = 2 pi / (n dz)
call_myifft(sp) ==
    /\ t.pc = "k"
    /\ t' = [t EXCEPT !.y = myifft(t.k, IF sp = "dz" THEN t.dz ELSE fdiv(TwoPi, self.n * t.dz),
                                   self.n),
                      !.sp = sp, !.pc = "y"]
    /\ UNCHANGED <<self, pc, ev, a, im, ip, fr, ref, twin, hist, err>>

NextFFT == call_myfft \/ \E sp \in {"dz", "dk"} : call_myifft(sp)

SpecFFT == InitFFT /\ [][NextFFT]_vars

\* ------------------------------------------------------------ the claims
InP == pc = "P"
Returned == pc = "P" /\ fr.pc = "return"
IsHermitian(x) == \A i \in DOMAIN x : \A j \in DOMAIN x : x[i][j] = cconj(x[j][i])
IsSymmetric(x) == \A i \in DOMAIN x : \A j \in DOMAIN x : x[i][j] = x[j][i]
Ablock(q, n) == slice(q, 0, 0, n)
Bblock(q, n) == slice(q, 0, n, n)

\* C1: P_loss with loss rate 0 returns the (field, M, N) that P_no_loss returns on the
\* same arguments, and after every number of steps its (M, N) are U W^T and conj(W) W^T
\* of the running product of the steps' transfer matrices (the K of P_no_loss).
C1_LossyAtZeroLossIsLossless ==
    (InP /\ a.fn = "P_loss" /\ a.G = 0) =>
        /\ fr.pc = "return" =>
              fr.u = twin.u /\ ndeq(fr.M, twin.M) /\ ndeq(fr.N, twin.N)
        /\ (fr.pc = "loop" /\ fr.i >= 1) =>
              /\ fr.u = twin.u
              /\ ndeq(fr.M, nd2(mmul(slice(twin.K, 0, 0, a.n), mT(slice(twin.K, 0, a.n, a.n)))))
              /\ ndeq(fr.N, nd2(mmul(mconj(slice(twin.K, 0, a.n, a.n)),
                                     mT(slice(twin.K, 0, a.n, a.n)))))

\* C2: for the tables evolution builds and every field u, A(u) is Hermitian and B(u) is
\* symmetric.  Checked for the field of every state of every call, on both grid sizes.
C2_AHermitianBSymmetric ==
    InP =>
        /\ IsHermitian(A(fr.u, a.TD, a.TN, a.dz, a.ks, a.dk, im, a.n))
        /\ IsSymmetric(B(fr.u, a.TN, a.dz, a.dk, ip))
        /\ fr.pc = "upd" => /\ IsHermitian(Ablock(fr.Qm, a.n))
                            /\ IsSymmetric(Bblock(fr.Qm, a.n))
\* a complex field on the larger grid, whose A has a non-real entry off the diagonal
C2_Witness ==
    /\ InP /\ fr.pc = "upd" /\ a.n = 5
    /\ \E j \in Idx(a.n) : Im(fr.u[j]) # 0
    /\ Im(Ablock(fr.Qm, a.n)[0][1]) # 0
    /\ Bblock(fr.Qm, a.n)[0][1] # 0

\* C3: myifft(myfft(x, dz), dz, n) = x for every vector x of length n.
C3_RoundTrip == (t.pc = "y" /\ t.sp = "dz") => t.y = t.x

\* C4: called with tf = 0, every variant returns the field it was given and M = N = the
\* n x n zero matrix.
C4_ZeroSteps ==
    (Returned /\ a.tf = 0) =>
        /\ fr.u = a.u
        /\ ndeq(fr.M, nd2(mzeros(a.n)))
        /\ ndeq(fr.N, nd2(mzeros(a.n)))

\* C5: P_no_loss on the zero field: the field stays zero, the generator's B block and
\* the off-diagonal of its A block are zero, the top-right block W of K stays zero,
\* and the M and N returned are the zero matrix, whatever tf is.
C5_ZeroFieldStability ==
    (InP /\ a.fn = "P_no_loss" /\ a.u = vzeros(a.n)) =>
        /\ fr.u = vzeros(a.n)
        /\ fr.pc = "upd" =>
              /\ Bblock(fr.Qm, a.n) = mzeros(a.n)
              /\ \A i \in Idx(a.n) : \A j \in Idx(a.n) :
                    i # j => Ablock(fr.Qm, a.n)[i][j] = 0
        /\ slice(fr.K, 0, a.n, a.n) = mzeros(a.n)
        /\ fr.pc = "return" => /\ ndeq(fr.M, nd2(mzeros(a.n)))
                               /\ ndeq(fr.N, nd2(mzeros(a.n)))
\* the zero field returned after MaxTf steps, K having moved off the identity
C5_Witness ==
    /\ Returned /\ a.fn = "P_no_loss" /\ a.u = vzeros(a.n) /\ a.tf = MaxTf
    /\ fr.K # identity(2 * a.n)

\* C6: evolution fails fast.  Handed an unsupported shape tag or a field whose length
\* is not n, it raises at once: no propagator has been entered, no step has run, and
\* the object's dt and tf are what they were when evolution was called.
BadPump(u, n) ==
    \/ u.kind = "str" /\ u.s \notin {"Gaussian", "Rect", "Sech", "Lorentzian"}
    \/ u.kind = "array" /\ Size(u.a) # n
C6_FailFast ==
    /\ [][pc' = "ev_shape" => (self' = self /\ fr' = NoFrame)]_vars
    /\ [][(pc = "ev_shape" /\ BadPump(ev.u, self.n)) =>
             /\ pc' = "raised" /\ err' # ""
             /\ self'.dt = self.dt /\ self'.tf = self.tf
             /\ fr' = NoFrame /\ hist' = NoHist /\ a' = NoArgs]_vars
\* a raise on an object whose dt and tf an earlier call had set
C6_Witness ==
    /\ pc = "raised" /\ err = "ValueError: not a valid pump shape"
    /\ self.dt = <<self.dz>> /\ self.tf = <<MaxTf>>

\* C7: every entry of im and of ip is an integer in 0 .. n-1, and no step of a
\* propagator changes the tables.
InRange(tab, n) == \A i \in Idx(n) : \A j \in Idx(n) : tab[i][j] \in 0 .. (n - 1)
C7_Tables ==
    /\ [](pc \in {"ev_call", "P"} =>
             /\ DOMAIN im = Idx(self.n) /\ InRange(im, self.n)
             /\ DOMAIN ip = Idx(self.n) /\ InRange(ip, self.n))
    /\ [][(pc = "P" /\ pc' = "P") => (im' = im /\ ip' = ip)]_vars
\* the tables at the end of a call of MaxTf steps, with entries the clip has cut
C7_Witness ==
    /\ Returned /\ a.tf = MaxTf /\ a.n = 5
    /\ im[0][a.n - 1] = a.n - 1 /\ im[a.n - 1][0] = 0
    /\ ip[0][0] = 0 /\ ip[a.n - 1][a.n - 1] = a.n - 1

\* C8: the diagnostics change nothing but what is printed: a call with UWcheck and
\* MNcheck set stands, statement by statement, where the same call without them
\* stands, with the same loop counter, field, K, M and N.
C8_DiagnosticsPure ==
    InP =>
        /\ fr.pc = ref.pc /\ fr.i = ref.i
        /\ fr.u = ref.u /\ fr.K = ref.K
        /\ ndeq(fr.M, ref.M) /\ ndeq(fr.N, ref.N)
        /\ ref.out = << >>
\* P_loss returned after MaxTf steps with both checks on: four lines printed per step
C8_Witness ==
    /\ Returned /\ a.fn = "P_loss" /\ a.tf = MaxTf
    /\ a.UWcheck = "True" /\ a.MNcheck = "True"
    /\ Len(fr.out) = 4 * MaxTf
    /\ fr.u # a.u

\* C9: every step is half step, nonlinear step on the field the step started from,
\* half step, generator of the field the second half step left, fluctuation update,
\* in this order, once each; and a call returns after exactly tf steps.
Order == <<"D", "N", "D", "Q", "F">>
Taken(p) == CASE p = "opN" -> 1 [] p = "opD2" -> 2 [] p = "Q" -> 3 [] p = "upd" -> 4
              [] OTHER -> 0
C9_StepOrder ==
    InP =>
        /\ \A k \in 1 .. Len(hist.trace) : hist.trace[k] = Order[((k - 1) % 5) + 1]
        /\ Len(hist.trace) = 5 * fr.i + Taken(fr.pc)
        /\ fr.i <= a.tf
        /\ fr.pc \in {"post", "return"} => fr.i = a.tf
        /\ fr.pc \in {"opD1", "opN", "opD2", "Q", "upd"} => fr.i < a.tf
        /\ fr.pc = "opD1" => (fr.u = hist.u0 /\ fr.ui = hist.u0)
        /\ fr.pc \in {"opN", "opD2", "Q", "upd"} =>
              hist.u1 = opD(hist.u0, a.TD, opD_G(a), a.kk, a.dt)
        /\ fr.pc = "opN" => (fr.u = hist.u1 /\ fr.ui = hist.u0)
        /\ fr.pc \in {"opD2", "Q", "upd"} => hist.u2 = opN(hist.u1, a.TN, hist.u0, a.dt)
        /\ fr.pc \in {"Q", "upd"} =>
              (fr.u = hist.u3 /\ hist.u3 = opD(hist.u2, a.TD, opD_G(a), a.kk, a.dt))
        /\ fr.pc = "upd" =>
              fr.Qm = Q(hist.u3, a.TD, a.TN, a.dz, a.ks, a.dk, im, ip, a.n)
\* a call returned after MaxTf steps, of a field the steps have changed
C9_Witness ==
    /\ Returned /\ a.tf = MaxTf /\ a.fn = "P_Nico"
    /\ Len(hist.trace) = 5 * MaxTf
    /\ hist.u1 # hist.u0 /\ hist.u2 # hist.u1

\* C10: a step of P_loss takes U and W from this step's exponential alone and maps
\* the pair (M, N) it found to (1 - G dt) (M', N'), both M' and N' computed from the
\* M and N the step found.
C10_LossRecursion ==
    [][(pc = "P" /\ fr.pc = "upd" /\ a.fn = "P_loss") =>
          LET K == stepK(fr, a)
              U == nd2(slice(K, 0, 0, a.n))
              W == nd2(slice(K, 0, a.n, a.n))
              c == Fp(1 - a.G * a.dt)
          IN  /\ fr'.K = K
              /\ ndeq(fr'.M, ndscal(c, Mrec(U, W, fr.M, fr.N)))
              /\ ndeq(fr'.N, ndscal(c, Nrec(U, W, fr.M, fr.N)))]_vars

\* C11: P_Nico starts K at the identity and left-multiplies it, each step, by that
\* step's exponential, as P_no_loss does; both half steps of every step are handed the
\* loss rate G; M and N are not touched inside the loop; and after the last step they
\* are U W^T and conj(W) W^T of the final K, scaled once by exp(-G dt tf).
Nico == InP /\ a.fn = "P_Nico"
C11_NicoAccumulatesThenScales ==
    /\ [](Nico =>
            /\ (fr.pc = "loop" /\ fr.i = 0) => fr.K = identity(2 * a.n)
            /\ fr.pc # "return" => (fr.M = nd1(vzeros(a.n)) /\ fr.N = nd1(vzeros(a.n)))
            /\ a.G = 0 => (fr.u = twin.u /\ fr.K = twin.K)
            /\ fr.pc = "return" =>
                  LET U == slice(fr.K, 0, 0, a.n)
                      W == slice(fr.K, 0, a.n, a.n)
                      e == Exp(Fp(0 - a.G * a.dt * a.tf))
                  IN  /\ fr.i = a.tf
                      /\ ndeq(fr.M, nd2(mscal(e, mmul(U, mT(W)))))
                      /\ ndeq(fr.N, nd2(mscal(e, mmul(mconj(W), mT(W))))))
    /\ [][(Nico /\ fr.pc \in {"opD1", "opD2"}) =>
             fr'.u = opD(fr.u, a.TD, a.G, a.kk, a.dt)]_vars
    /\ [][(Nico /\ fr.pc = "upd") =>
             /\ fr'.K = mmul(expm(mscal(cscal(a.dt, I1), fr.Qm)), fr.K)
             /\ twin'.K = mmul(expm(mscal(cscal(a.dt, I1), twin.Qm)), twin.K)
             /\ fr'.M = fr.M /\ fr'.N = fr.N /\ fr'.u = fr.u]_vars
    /\ [][(Nico /\ fr.pc = "post") => (fr'.K = fr.K /\ fr'.u = fr.u)]_vars
\* P_Nico returned after MaxTf lossy steps: the loss has acted on the field, and the
\* scaling is visible on a nonzero M and N
C11_Witness ==
    /\ Returned /\ a.fn = "P_Nico" /\ a.G # 0 /\ a.tf = MaxTf
    /\ fr.u # twin.u
    /\ ~ ndeq(fr.M, nd2(mzeros(a.n)))
    /\ ~ ndeq(fr.M, nd2(mmul(slice(fr.K, 0, 0, a.n), mT(slice(fr.K, 0, a.n, a.n)))))
    /\ ~ ndeq(fr.N, nd2(mmul(mconj(slice(fr.K, 0, a.n, a.n)), mT(slice(fr.K, 0, a.n, a.n)))))

\* C12: the tables im and ip built in evolution are both symmetric under index swap:
\* im[i][j] = im[j][i] and ip[i][j] = ip[j][i] for all i, j.
TablesBuilt == pc \in {"ev_call", "P"}
C12_TablesSymmetric == TablesBuilt => (IsSymmetric(im) /\ IsSymmetric(ip))
\* C12, amended: ip is symmetric under index swap, and im is reflected about the centre
\* of the grid by it: im[i][j] + im[j][i] = n - 1 for all i, j, also where the clip cuts.
C12_TablesUnderSwap ==
    TablesBuilt =>
        /\ IsSymmetric(ip)
        /\ \A i \in Idx(self.n) : \A j \in Idx(self.n) :
              im[i][j] + im[j][i] = self.n - 1
\* evolution has built the tables of the larger grid: im differs from its transpose,
\* next to the diagonal and where the clip has cut
C12_Witness ==
    /\ pc = "ev_call" /\ self.n = 5
    /\ im[1][2] = 3 /\ im[2][1] = 1
    /\ im[0][4] = 4 /\ im[4][0] = 0
    /\ ip[0][1] = 0 /\ ip[1][0] = 0 /\ ip[1][4] = 3 /\ ip[4][1] = 3

============================================================================
